---- MODULE Spec2Model ----
EXTENDS Integers, Sequences, FiniteSets, TLC

(***************************************************************************)
(* Text.  A Python str is modelled as a sequence of atoms.  Every atom      *)
(* stands for one fixed run of characters (the atom's own spelling), and a  *)
(* text is the concatenation of its atoms.  The alphabet is chosen so that  *)
(* every literal the regular expressions and substring tests look for can   *)
(* occur in a text only aligned with atom boundaries:                       *)
(*   "fusion_toggle" is always the two atoms "fusi" "on_toggle", so the     *)
(*   substring test for "on_toggle]" sees the tag name exactly as the       *)
(*   character-level test does; every other tag name is one atom;           *)
(*   title=  and the double quote are separate atoms; letters are single    *)
(*   characters.                                                            *)
(* Offsets are counted in atoms, 0-based and half-open as in Python.        *)
(***************************************************************************)

Letters == {"a", "b"}

\* atoms whose first character is a word character (\w)
WordStart ==
    Letters \cup {"fusi", "on_toggle", "On_Toggle", "off_toggle", "title=",
                  "fusion_title", "fusion_text", "fusion_highlight",
                  "fusion_button", "fusion_li_item", "fusion_table",
                  "application/ld+json"}

\* atoms whose last character is a word character
WordEnd ==
    (WordStart \ {"title="}) \cup {"<script"}

\* atoms that are whitespace
Whitespace == {" "}

\* str.lower(), atom by atom
LowerAtom(x) == IF x = "On_Toggle" THEN "on_toggle" ELSE x

lower(t) == [i \in 1..Len(t) |-> LowerAtom(t[i])]

Min(S) == CHOOSE m \in S : \A n \in S : m <= n

\* Python's  lit in t
Contains(t, lit) ==
    \E i \in 1..(Len(t) - Len(lit) + 1) : SubSeq(t, i, i + Len(lit) - 1) = lit

\* least position >= from holding atom x, 0 when there is none
FirstAt(t, from, x) ==
    LET S == {i \in from..Len(t) : t[i] = x}
    IN  IF S = {} THEN 0 ELSE Min(S)

\* least position >= from where the literal lit starts, 0 when there is none
FirstLit(t, from, lit) ==
    LET S == {i \in from..(Len(t) - Len(lit) + 1) :
                 SubSeq(t, i, i + Len(lit) - 1) = lit}
    IN  IF S = {} THEN 0 ELSE Min(S)

\* the regex assertion \b just before position p (p = Len(t)+1: end of text)
WordBoundary(t, p) ==
    LET prev == p > 1 /\ t[p - 1] \in WordEnd
        next == p <= Len(t) /\ t[p] \in WordStart
    IN  prev # next

(***************************************************************************)
(* segments.py: constants and regular expressions                          *)
(***************************************************************************)

BODY_TAGS ==
    {"fusion_title", "fusion_text", "fusion_highlight",
     "fusion_button", "fusion_li_item", "fusion_table"}

SKIP_IF_CONTAINS == {<<"<script">>, <<"application/ld+json">>}

ToggleOpen == <<"[", "fusi", "on_toggle">>
ToggleClose == <<"[", "/", "fusi", "on_toggle", "]">>

NoMatch ==
    [ok |-> FALSE, from |-> 0, to |-> 0, tag |-> "", astart |-> 0,
     bstart |-> 0, bend |-> 0]

\* BODY_RX matched at position i (1-based) of t.  from/to are the first and
\* last position of the match; bstart/bend are m.start("body")/m.end("body").
BODY_RX(t, i) ==
    IF i + 1 <= Len(t) /\ t[i] = "[" /\ t[i + 1] \in BODY_TAGS
       /\ WordBoundary(t, i + 2)
    THEN LET c == FirstAt(t, i + 2, "]")
             k == IF c = 0 THEN 0
                  ELSE FirstLit(t, c + 1, <<"[", "/", t[i + 1], "]">>)
         IN  IF k = 0 THEN NoMatch
             ELSE [ok |-> TRUE, from |-> i, to |-> k + 3, tag |-> t[i + 1],
                   astart |-> i + 2, bstart |-> c, bend |-> k - 1]
    ELSE NoMatch

\* TOGGLE_RX matched at position i; attrs is t[astart .. bstart-1] (1-based)
TOGGLE_RX(t, i) ==
    IF i + 2 <= Len(t) /\ SubSeq(t, i, i + 2) = ToggleOpen
       /\ WordBoundary(t, i + 3)
    THEN LET c == FirstAt(t, i + 3, "]")
             k == IF c = 0 THEN 0 ELSE FirstLit(t, c + 1, ToggleClose)
         IN  IF k = 0 THEN NoMatch
             ELSE [ok |-> TRUE, from |-> i, to |-> k + 4,
                   tag |-> "fusion_toggle", astart |-> i + 3,
                   bstart |-> c, bend |-> k - 1]
    ELSE NoMatch

\* BODY_RX.finditer(t): the non-overlapping matches, leftmost first
RECURSIVE BodyFinditer(_, _)
BodyFinditer(t, pos) ==
    LET S == {i \in pos..Len(t) : BODY_RX(t, i).ok}
    IN  IF S = {} THEN <<>>
        ELSE LET m == BODY_RX(t, Min(S))
             IN  <<m>> \o BodyFinditer(t, m.to + 1)

\* TOGGLE_RX.finditer(t) and toggle_block_rx.finditer(t) (the same pattern)
RECURSIVE ToggleFinditer(_, _)
ToggleFinditer(t, pos) ==
    LET S == {i \in pos..Len(t) : TOGGLE_RX(t, i).ok}
    IN  IF S = {} THEN <<>>
        ELSE LET m == TOGGLE_RX(t, Min(S))
             IN  <<m>> \o ToggleFinditer(t, m.to + 1)

NoTitle == [ok |-> FALSE, from |-> 0, to |-> 0, value |-> <<>>]

\* TITLE_ATTR_RX.search(s): the leftmost  \btitle="([^"]*)"
TITLE_ATTR_RX(s) ==
    LET S == {i \in 1..(Len(s) - 2) :
                 /\ s[i] = "title=" /\ s[i + 1] = "\""
                 /\ WordBoundary(s, i)
                 /\ FirstAt(s, i + 2, "\"") # 0}
    IN  IF S = {} THEN NoTitle
        ELSE LET i == Min(S)
                 q == FirstAt(s, i + 2, "\"")
             IN  [ok |-> TRUE, from |-> i, to |-> q,
                  value |-> SubSeq(s, i + 2, q - 1)]

\* the sha1 digest of the six inputs, kept as the tuple of the inputs
\* (collision freedom of the digest is assumed)
stable_id(source_key, kind, idx, start, end, text) ==
    <<source_key, kind, idx, start, end, text>>

should_skip(text) ==
    \E x \in SKIP_IF_CONTAINS : Contains(lower(text), x)

\* body.strip() is non-empty
StripNonEmpty(body) == \E i \in 1..Len(body) : body[i] \notin Whitespace

\* an absent "start"/"end"/"toggle_order" key
None == -1

\* the sort key's stand-in for an absent offset (10**18 in the source; any
\* value above every offset orders the same)
NoOffsetKey == 1000000000

HasSpan(s) == s.start # None /\ s.end # None

KeyLeq(a, b) ==
    LET ka == IF a.start = None THEN NoOffsetKey ELSE a.start
        kb == IF b.start = None THEN NoOffsetKey ELSE b.start
        ea == IF a.end = None THEN NoOffsetKey ELSE a.end
        eb == IF b.end = None THEN NoOffsetKey ELSE b.end
    IN  ka < kb \/ (ka = kb /\ ea <= eb)

\* list.sort(key=...): stable, ascending
RECURSIVE SortSegments(_)
SortSegments(segs) ==
    IF Len(segs) <= 1 THEN segs
    ELSE LET n == Len(segs)
             rest == SortSegments(SubSeq(segs, 1, n - 1))
             s == segs[n]
             \* s goes after every element whose key is <= its own
             P == {j \in 1..Len(rest) : KeyLeq(rest[j], s)}
             p == IF P = {} THEN 0 ELSE CHOOSE j \in P : \A l \in P : l <= j
         IN  SubSeq(rest, 1, p) \o <<s>> \o SubSeq(rest, p + 1, Len(rest))

\* first loop of extract_segments; idx is always len(segments)
RECURSIVE BodyLoop(_, _, _, _, _)
BodyLoop(text, source_key, ms, j, segs) ==
    IF j > Len(ms) THEN segs
    ELSE LET m == ms[j]
             body == SubSeq(text, m.bstart + 1, m.bend)
         IN  IF should_skip(body)
             THEN BodyLoop(text, source_key, ms, j + 1, segs)
             ELSE BodyLoop(text, source_key, ms, j + 1,
                    Append(segs,
                      [id |-> stable_id(source_key, m.tag, Len(segs),
                                        m.bstart, m.bend, body),
                       kind |-> m.tag, start |-> m.bstart, end |-> m.bend,
                       toggle_order |-> None, text |-> body]))

\* second loop of extract_segments; toggle_order is j - 1
RECURSIVE ToggleLoop(_, _, _, _, _)
ToggleLoop(text, source_key, ms, j, segs) ==
    IF j > Len(ms) THEN segs
    ELSE LET m == ms[j]
             attrs == SubSeq(text, m.astart, m.bstart - 1)
             body == SubSeq(text, m.bstart + 1, m.bend)
             title_m == TITLE_ATTR_RX(attrs)
             withTitle ==
                 IF title_m.ok /\ title_m.value # <<>>
                    /\ ~should_skip(title_m.value)
                 THEN Append(segs,
                        [id |-> stable_id(source_key, "fusion_toggle:title",
                                          Len(segs), -1, -1, title_m.value),
                         kind |-> "fusion_toggle:title", start |-> None,
                         end |-> None, toggle_order |-> j - 1,
                         text |-> title_m.value])
                 ELSE segs
             withBody ==
                 IF StripNonEmpty(body) /\ ~should_skip(body)
                 THEN Append(withTitle,
                        [id |-> stable_id(source_key, "fusion_toggle:body",
                                          Len(withTitle), m.bstart, m.bend,
                                          body),
                         kind |-> "fusion_toggle:body", start |-> m.bstart,
                         end |-> m.bend, toggle_order |-> j - 1,
                         text |-> body])
                 ELSE withTitle
         IN  ToggleLoop(text, source_key, ms, j + 1, withBody)

extract_segments(text, source_key) ==
    LET bodies == BodyLoop(text, source_key, BodyFinditer(text, 1), 1, <<>>)
        all == ToggleLoop(text, source_key, ToggleFinditer(text, 1), 1, bodies)
    IN  SortSegments(all)

replace_toggle_title(block, new_title) ==
    LET m == TITLE_ATTR_RX(block)
    IN  IF m.ok
        THEN SubSeq(block, 1, m.from - 1)
             \o <<"title=", "\"">> \o new_title \o <<"\"">>
             \o SubSeq(block, m.to + 1, Len(block))
        ELSE block

(***************************************************************************)
(* translate.py: the translation-integrity validator                       *)
(***************************************************************************)

BAD_TOKENS == {<<"on_toggle", "]">>, <<"off_toggle", "]">>}

\* BRACKET_RX.findall(t) from position pos on, as <<first, last>> positions:
\* a match starts at the leftmost "[" and ends at the first "]" after it
RECURSIVE BracketSpans(_, _)
BracketSpans(t, pos) ==
    LET i == FirstAt(t, pos, "[")
        c == IF i = 0 THEN 0 ELSE FirstAt(t, i + 1, "]")
    IN  IF c = 0 THEN <<>> ELSE <<(<<i, c>>)>> \o BracketSpans(t, c + 1)

BRACKET_RX(t) ==
    LET sp == BracketSpans(t, 1)
    IN  [n \in 1..Len(sp) |-> SubSeq(t, sp[n][1], sp[n][2])]

is_corrupt_no_lower(o, t) ==
    BRACKET_RX(o) # BRACKET_RX(t) \/ \E b \in BAD_TOKENS : Contains(t, b)

is_corrupt(o, t) ==
    LET orig_br == BRACKET_RX(o)
        tr_br == BRACKET_RX(t)
        low == lower(t)
    IN  IF orig_br # tr_br THEN TRUE
        ELSE IF \E b \in BAD_TOKENS : Contains(low, b) THEN TRUE
        ELSE FALSE

(***************************************************************************)
(* Container documents of the model: up to MaxElems elements, each element *)
(* a fragment of page-builder markup (well-formed, nested or unterminated). *)
(***************************************************************************)

MaxElems == 2

TitleAttr(v) == <<" ", "title=", "\"">> \o v \o <<"\"">>

TextEl == <<"[", "fusion_text", "]", "a", "b", "[", "/", "fusion_text", "]">>

ToggleEl ==
    ToggleOpen \o TitleAttr(<<"b", "a">>) \o <<"]", "b">> \o ToggleClose

\* a toggle whose body holds a body-tag shortcode
ToggleWithText ==
    ToggleOpen \o TitleAttr(<<"a", "b">>) \o <<"]">> \o TextEl \o ToggleClose

\* a body-tag shortcode whose body holds a toggle
TitleWithToggle ==
    <<"[", "fusion_title", "]">>
    \o ToggleOpen \o TitleAttr(<<"a">>) \o <<"]", "b">> \o ToggleClose
    \o <<"[", "/", "fusion_title", "]">>

\* an opening toggle tag that is never closed
ToggleOpenOnly == ToggleOpen \o TitleAttr(<<"b">>) \o <<"]">>

ScriptEl ==
    <<"[", "fusion_text", "]", "<script", "[", "/", "fusion_text", "]">>

\* a toggle without title and with a whitespace body
BlankToggle == ToggleOpen \o <<"]", " ">> \o ToggleClose

\* a toggle and a body-tag shortcode that cross each other
Crossed ==
    ToggleOpen \o TitleAttr(<<"a">>)
    \o <<"]", "a", "[", "fusion_text", "]", "b">> \o ToggleClose
    \o <<"a", "[", "/", "fusion_text", "]">>

\* a toggle whose opening tag has no title while its body shows one
TitleInBody ==
    ToggleOpen \o <<"]", "a">> \o TitleAttr(<<"b">>) \o ToggleClose

Elems ==
    <<TextEl, ToggleEl, ToggleWithText, TitleWithToggle, ToggleOpenOnly,
      ToggleClose, ScriptEl, BlankToggle, Crossed, TitleInBody>>

RECURSIVE Flatten(_)
Flatten(ss) == IF ss = <<>> THEN <<>> ELSE Head(ss) \o Flatten(Tail(ss))

Docs ==
    {Flatten([i \in 1..Len(f) |-> Elems[f[i]]]) :
        f \in UNION {[1..n -> 1..Len(Elems)] : n \in 0..MaxElems}}

SourceKeys == {"p/container_1.txt"}

(***************************************************************************)
(* The translated set handed to the Applier is produced outside            *)
(* segments.py.  The model lets it carry, for every segment, the original   *)
(* text ("same"), a longer text ("grow") or a shorter one ("shrink"), and   *)
(* lets it lack one id.                                                     *)
(***************************************************************************)

Modes == {"same", "grow", "shrink"}

\* the first letter of t that lies outside every bracket token
FirstLetter(t) ==
    LET sp == BracketSpans(t, 1)
        S == {i \in 1..Len(t) :
                 /\ t[i] \in Letters
                 /\ \A n \in 1..Len(sp) : i < sp[n][1] \/ i > sp[n][2]}
    IN  IF S = {} THEN 0 ELSE Min(S)

Translate(mode, t) ==
    LET i == FirstLetter(t)
    IN  IF mode = "same" \/ i = 0 THEN t
        ELSE IF mode = "grow"
             THEN SubSeq(t, 1, i) \o <<t[i]>> \o SubSeq(t, i + 1, Len(t))
             ELSE SubSeq(t, 1, i - 1) \o SubSeq(t, i + 1, Len(t))

RemoveAt(s, i) ==
    IF i = 0 THEN s ELSE SubSeq(s, 1, i - 1) \o SubSeq(s, i + 1, Len(s))

(***************************************************************************)
(* State of the extract / apply pipeline for one container document        *)
(***************************************************************************)

\* an artifact that does not exist
NoFile == [exists |-> FALSE, source_key |-> "", segments |-> <<>>]

\* an output document that does not exist
NoOutput == [exists |-> FALSE, text |-> <<>>]

VARIABLES
    raw,            \* the container document (file under src_dir)
    source_key,     \* its key
    extracted,      \* the extracted artifact, NoFile until written
    translated,     \* the translated artifact, NoFile until written
    pc,             \* position of cmd_apply in its loop body
    segs,           \* cmd_apply: the re-extracted segment list
    tr_map,         \* cmd_apply: id -> translated text, as a set of pairs
    span_todo,      \* cmd_apply: offset-bearing segments still to splice
    title_todo,     \* cmd_apply: title segments still to relocate
    out,            \* cmd_apply: the working document
    outfile,        \* the output file, NoFile until written
    err             \* the exception cmd_apply raised, "" if none

varsA ==
    <<raw, source_key, extracted, translated, pc, segs, tr_map, span_todo,
      title_todo, out, outfile, err>>

(***************************************************************************)
(* State of one call of the integrity validator                            *)
(***************************************************************************)

VARIABLES
    original_text,    \* is_corrupt: first argument
    translated_text,  \* is_corrupt: second argument
    verdict           \* "unchecked", then "corrupt" or "ok"

varsV == <<original_text, translated_text, verdict>>

(***************************************************************************)
(* State of one run of translate.py                                        *)
(***************************************************************************)

VARIABLES
    args,        \* command line: batch, max_retries, sleep_base, workers, overwrite
    service,     \* the kinds of answer the translation service may give
    paths,       \* the input files of the run, as 1..n in sorted order
    files,       \* input artifact of every path (in_dir)
    out_files,   \* translated artifact of every path (out_dir)
    w,           \* per path: the state of its translate_file future
    collected,   \* main: the futures as_completed has handed over
    tally,       \* main: the counters of lines 199-205
    main_pc      \* main: "off", "running", "done"

varsT ==
    <<args, service, paths, files, out_files, w, collected, tally, main_pc>>

\* a cmd_apply run over the files of src_dir
VARIABLES src_dir, extracted_dir, translated_dir, out_dir, next_p, apply_pc,
          apply_err

varsB ==
    <<src_dir, extracted_dir, translated_dir, out_dir, next_p, apply_pc,
      apply_err>>

vars == <<varsA, varsV, varsT, varsB>>

\* no cmd_apply run over several files is in progress
IdleB ==
    /\ src_dir = <<>>
    /\ extracted_dir = <<>>
    /\ translated_dir = <<>>
    /\ out_dir = <<>>
    /\ next_p = 0
    /\ apply_pc = "off"
    /\ apply_err = ""

\* translate.py is not in use
IdleT ==
    /\ args = <<>>
    /\ service = {}
    /\ paths = {}
    /\ files = <<>>
    /\ out_files = <<>>
    /\ w = <<>>
    /\ collected = {}
    /\ tally = <<>>
    /\ main_pc = "off"

\* the validator is not in use
IdleV ==
    /\ original_text = <<>>
    /\ translated_text = <<>>
    /\ verdict = "unchecked"

\* the extract / apply pipeline is not in use
IdleA ==
    /\ raw = <<>>
    /\ source_key = ""
    /\ extracted = NoFile
    /\ translated = NoFile
    /\ pc = "off"
    /\ segs = <<>>
    /\ tr_map = NoFile
    /\ span_todo = <<>>
    /\ title_todo = <<>>
    /\ out = <<>>
    /\ outfile = NoOutput
    /\ err = ""

\* json payload of cmd_extract
Payload(key, ss) ==
    [exists |-> TRUE, source_key |-> key,
     segments |-> [i \in 1..Len(ss) |->
                     [id |-> ss[i].id, kind |-> ss[i].kind, text |-> ss[i].text]]]

Ids(file) == {file.segments[i].id : i \in 1..Len(file.segments)}

HasId(file, sid) == sid \in Ids(file)

MissingIdsNone(ex, tr) == {}

\* missing = [sid for sid in ex_map.keys() if sid not in tr_map]
MissingIds(ex, tr) == Ids(ex) \ Ids(tr)

\* tr_map[sid].get("text", ""): the last entry with that id wins
Lookup(file, sid) ==
    LET S == {i \in 1..Len(file.segments) : file.segments[i].id = sid}
    IN  file.segments[CHOOSE i \in S : \A j \in S : j <= i].text

InitA ==
    /\ raw \in Docs
    /\ source_key \in SourceKeys
    /\ extracted = NoFile
    /\ translated = NoFile
    /\ pc = "idle"
    /\ segs = <<>>
    /\ tr_map = NoFile
    /\ span_todo = <<>>
    /\ title_todo = <<>>
    /\ out = <<>>
    /\ outfile = NoOutput
    /\ err = ""

\* cmd_extract for the document
cmd_extract ==
    /\ UNCHANGED <<varsV, varsT, varsB>>
    /\ pc = "idle"
    /\ extracted = NoFile
    /\ extracted' = Payload(source_key, extract_segments(raw, source_key))
    /\ UNCHANGED <<raw, source_key, translated, pc, segs, tr_map, span_todo,
                   title_todo, out, outfile, err>>

\* the translation stage delivers a translated artifact
TranslatedArrives ==
    /\ UNCHANGED <<varsV, varsT, varsB>>
    /\ pc = "idle"
    /\ extracted # NoFile
    /\ translated = NoFile
    /\ \E mode \in Modes, drop \in 0..Len(extracted.segments) :
          translated' =
              [exists |-> TRUE, source_key |-> extracted.source_key,
               segments |->
                   RemoveAt([i \in 1..Len(extracted.segments) |->
                               [id |-> extracted.segments[i].id,
                                kind |-> extracted.segments[i].kind,
                                text |-> Translate(mode,
                                            extracted.segments[i].text)]],
                            drop)]
    /\ UNCHANGED <<raw, source_key, extracted, pc, segs, tr_map, span_todo,
                   title_todo, out, outfile, err>>

IsTitle(s) == s.kind = "fusion_toggle:title"

PcAfter(spans, titles) ==
    IF spans # <<>> THEN "spans" ELSE IF titles # <<>> THEN "titles" ELSE "write"

\* cmd_apply, loop body up to the start of the replacements
ApplyBegin ==
    /\ UNCHANGED <<varsV, varsT, varsB>>
    /\ pc = "idle"
    /\ IF extracted = NoFile \/ translated = NoFile
       THEN /\ pc' = "raised"
            /\ err' = "FileNotFoundError"
            /\ UNCHANGED <<segs, tr_map, span_todo, title_todo, out>>
       ELSE LET missing == MissingIds(extracted, translated)
            IN  IF missing # {}
                THEN /\ pc' = "raised"
                     /\ err' = "ValueError: Missing translated segment IDs"
                     /\ UNCHANGED <<segs, tr_map, span_todo, title_todo, out>>
                ELSE LET ss == extract_segments(raw, source_key)
                         span_segs == SelectSeq(ss, HasSpan)
                         title_segs == SelectSeq(ss, IsTitle)
                     IN  /\ segs' = ss
                         /\ tr_map' = translated
                         /\ span_todo' = span_segs
                         /\ title_todo' = title_segs
                         /\ out' = raw
                         /\ pc' = PcAfter(span_segs, title_segs)
                         /\ err' = ""
    /\ UNCHANGED <<raw, source_key, extracted, translated, outfile>>

SpliceKeepsLast(doc, start, end, new_text) ==
    SubSeq(doc, 1, start) \o new_text \o SubSeq(doc, end, Len(doc))

\* out = out[:start] + new_text + out[end:]
Splice(doc, start, end, new_text) ==
    SubSeq(doc, 1, start) \o new_text \o SubSeq(doc, end + 1, Len(doc))

\* one iteration of  for s in reversed(span_segs)
ApplySpan ==
    /\ UNCHANGED <<varsV, varsT, varsB>>
    /\ pc = "spans"
    /\ LET s == span_todo[Len(span_todo)]
           rest == SubSeq(span_todo, 1, Len(span_todo) - 1)
       IN  IF ~HasId(tr_map, s.id)
           THEN /\ pc' = "raised"
                /\ err' = "KeyError"
                /\ UNCHANGED <<out, span_todo>>
           ELSE /\ out' = Splice(out, s.start, s.end, Lookup(tr_map, s.id))
                /\ span_todo' = rest
                /\ pc' = PcAfter(rest, title_todo)
                /\ err' = err
    /\ UNCHANGED <<raw, source_key, extracted, translated, segs, tr_map,
                   title_todo, outfile>>

\* the block a title segment is relocated to: its ordinal, clamped
TitleBlock(blocks, s) ==
    LET order == IF s.toggle_order >= Len(blocks) THEN Len(blocks) - 1
                 ELSE s.toggle_order
    IN  blocks[order + 1]

\* one iteration of  for s in title_segs
ApplyTitle ==
    /\ UNCHANGED <<varsV, varsT, varsB>>
    /\ pc = "titles"
    /\ LET s == Head(title_todo)
           blocks == ToggleFinditer(out, 1)
       IN  IF ~HasId(tr_map, s.id)
           THEN /\ pc' = "raised"
                /\ err' = "KeyError"
                /\ UNCHANGED <<out, title_todo>>
           ELSE IF blocks = <<>>
           THEN /\ pc' = "raised"
                /\ err' = "ValueError: toggle block not found"
                /\ UNCHANGED <<out, title_todo>>
           ELSE LET bm == TitleBlock(blocks, s)
                    block == SubSeq(out, bm.from, bm.to)
                    new_block == replace_toggle_title(block, Lookup(tr_map, s.id))
                IN  /\ out' = SubSeq(out, 1, bm.from - 1) \o new_block
                                \o SubSeq(out, bm.to + 1, Len(out))
                    /\ title_todo' = Tail(title_todo)
                    /\ pc' = PcAfter(<<>>, Tail(title_todo))
                    /\ err' = err
    /\ UNCHANGED <<raw, source_key, extracted, translated, segs, tr_map,
                   span_todo, outfile>>

\* out_path.write_text(out)
ApplyWrite ==
    /\ UNCHANGED <<varsV, varsT, varsB>>
    /\ pc = "write"
    /\ outfile' = [exists |-> TRUE, text |-> out]
    /\ pc' = "done"
    /\ UNCHANGED <<raw, source_key, extracted, translated, segs, tr_map,
                   span_todo, title_todo, out, err>>

NextA ==
    \/ cmd_extract
    \/ TranslatedArrives
    \/ ApplyBegin
    \/ ApplySpan
    \/ ApplyTitle
    \/ ApplyWrite

Init == InitA /\ IdleV /\ IdleT /\ IdleB

Spec == Init /\ [][NextA]_vars

(***************************************************************************)
(* Properties of the extract / apply pipeline                              *)
(***************************************************************************)

Applying == pc \in {"spans", "titles", "write", "done"}

\* some segment of the extracted artifact has no entry in the translated one
SomeIdAbsent ==
    \E i \in 1..Len(extracted.segments) :
        \A j \in 1..Len(translated.segments) :
            translated.segments[j].id # extracted.segments[i].id

\* every extracted id is in the translated set
Covered ==
    /\ extracted.exists /\ translated.exists
    /\ ~SomeIdAbsent

\* the translated set maps every extracted id to the segment's original text
IdentitySet ==
    /\ Covered
    /\ \A i \in 1..Len(extracted.segments) :
          Lookup(translated, extracted.segments[i].id)
              = extracted.segments[i].text

SpanSegs == SelectSeq(segs, HasSpan)
TitleSegs == SelectSeq(segs, IsTitle)

Overlap(a, b) == a.start < b.end /\ b.start < a.end

\* C1: Round-trip identity.  With a translated set that maps every extracted
\* id to that segment's original text, cmd_apply does not raise, its working
\* document equals the original after every replacement, and the output
\* file it writes equals the original document.
C1_RoundTrip ==
    IdentitySet =>
        /\ pc # "raised"
        /\ Applying => out = raw
        /\ pc = "done" => outfile = [exists |-> TRUE, text |-> raw]

\* a round trip of a document with several toggles, titles and a toggle
\* nested with a body tag
C1_Witness ==
    /\ IdentitySet
    /\ pc = "done"
    /\ Len(TitleSegs) >= 2
    /\ \E i, j \in 1..Len(SpanSegs) : i # j /\ Overlap(SpanSegs[i], SpanSegs[j])

\* C2: Completeness enforcement.  Whenever an extracted id is absent from
\* the translated set, cmd_apply goes nowhere but to the raise of line 164:
\* no replacement is made and no output file is written.
C2_Completeness ==
    (extracted.exists /\ translated.exists /\ SomeIdAbsent) =>
        /\ pc \in {"idle", "raised"}
        /\ pc = "raised" => err = "ValueError: Missing translated segment IDs"
        /\ out = <<>> /\ segs = <<>>
        /\ outfile = NoOutput

C2_Witness ==
    /\ pc = "raised"
    /\ err = "ValueError: Missing translated segment IDs"
    /\ Len(extracted.segments) >= 2
    /\ Len(translated.segments) = Len(extracted.segments) - 1

\* the offset-bearing replacement phase is over and no title is replaced yet
SpansJustDone ==
    /\ pc \in {"titles", "write"}
    /\ span_todo = <<>>
    /\ title_todo = TitleSegs

\* growth of segment s: length of its translated text minus its span's length
Delta(s) == Len(Lookup(tr_map, s.id)) - (s.end - s.start)

RECURSIVE SumDelta(_)
SumDelta(ss) == IF ss = <<>> THEN 0 ELSE Delta(Head(ss)) + SumDelta(Tail(ss))

\* total growth of the spans that lie wholly before offset p, among the
\* first n offset-bearing segments
ShiftBefore(p, n) ==
    LET EndsBefore(s) == s.end <= p
    IN  SumDelta(SelectSeq(SubSeq(SpanSegs, 1, n), EndsBefore))

OutsideSpans(p) ==
    \A i \in 1..Len(SpanSegs) : p < SpanSegs[i].start \/ p >= SpanSegs[i].end

\* C3: Splice correctness.  After the offset-bearing replacement phase the
\* working document is the original with every span document[start:end]
\* replaced by its translated text: each translated text stands where its
\* span began (shifted by the growth of the spans before it), every
\* character outside the spans is unchanged (shifted likewise), and nothing
\* else is added or removed.
C3_Splice ==
    (Covered /\ SpansJustDone) =>
        /\ \A i \in 1..Len(SpanSegs) :
              LET s == SpanSegs[i]
                  new_text == Lookup(tr_map, s.id)
                  at == s.start + ShiftBefore(s.start, i - 1)
              IN  /\ at + Len(new_text) <= Len(out)
                  /\ SubSeq(out, at + 1, at + Len(new_text)) = new_text
        /\ \A p \in 0..(Len(raw) - 1) :
              OutsideSpans(p) =>
                  LET q == p + ShiftBefore(p, Len(SpanSegs)) + 1
                  IN  q \in 1..Len(out) /\ out[q] = raw[p + 1]
        /\ Len(out) = Len(raw) + SumDelta(SpanSegs)

\* C4: Non-overlap.  Any two distinct offset-bearing segments of one
\* extract_segments call have disjoint spans [start, end).
C4_NonOverlap ==
    \A i, j \in 1..Len(SpanSegs) :
        i # j => ~Overlap(SpanSegs[i], SpanSegs[j])

\* every translated text passes the integrity validator against its original
AllValidated ==
    /\ Covered
    /\ \A i \in 1..Len(extracted.segments) :
          ~is_corrupt(extracted.segments[i].text,
                      Lookup(translated, extracted.segments[i].id))

\* value of the title attribute in the opening tag of toggle match m of doc
\* (<<>> together with ok = FALSE when the tag has none)
TitleOf(doc, m) == TITLE_ATTR_RX(SubSeq(doc, m.astart, m.bstart - 1))

\* C5: Title relocation by ordinal.  With a covering translated set whose
\* texts all pass the validator: title replacements start only when every
\* offset-bearing replacement is applied, and in the output document the
\* toggle constructs are those of the original, each title segment's
\* translated text is the title attribute value of the construct with its
\* toggle_order, and every other construct keeps its title attribute.
C5_TitleRelocation ==
    AllValidated =>
        /\ pc = "titles" => span_todo = <<>>
        /\ pc = "done" =>
              LET before == ToggleFinditer(raw, 1)
                  after == ToggleFinditer(outfile.text, 1)
              IN  /\ Len(after) = Len(before)
                  /\ \A k \in 1..Len(before) :
                        LET T == {i \in 1..Len(TitleSegs) :
                                     TitleSegs[i].toggle_order = k - 1}
                        IN  IF T = {}
                            THEN TitleOf(outfile.text, after[k]).value
                                     = TitleOf(raw, before[k]).value
                            ELSE \A i \in T :
                                   TitleOf(outfile.text, after[k]).value
                                       = Lookup(tr_map, TitleSegs[i].id)

(***************************************************************************)
(* The integrity validator on its own: is_corrupt applied to a pair of     *)
(* texts built from up to MaxPieces pieces each.                            *)
(***************************************************************************)

MaxPieces == 2

TextPieces ==
    <<(<<"[", "a", "]">>), (<<"[", "b", "]">>), (<<"a">>),
      (<<"on_toggle", "]">>), (<<"On_Toggle", "]">>),
      (<<"[">>), (<<"]">>), (<<"[", "fusi", "on_toggle", "]">>)>>

Texts ==
    {Flatten([i \in 1..Len(f) |-> TextPieces[f[i]]]) :
        f \in UNION {[1..n -> 1..Len(TextPieces)] : n \in 0..MaxPieces}}

InitV ==
    /\ original_text \in Texts
    /\ translated_text \in Texts
    /\ verdict = "unchecked"

\* one call is_corrupt(original_text, translated_text)
Validate ==
    /\ verdict = "unchecked"
    /\ verdict' = IF is_corrupt(original_text, translated_text)
                  THEN "corrupt" ELSE "ok"
    /\ UNCHANGED <<original_text, translated_text>>
    /\ UNCHANGED <<varsA, varsT, varsB>>

NextV == Validate

InitValidator == InitV /\ IdleA /\ IdleT /\ IdleB

SpecV == InitValidator /\ [][NextV]_vars

\* C6: the integrity predicate is reflexive-safe: a candidate equal to the
\* original is never marked corrupt.
C6_ReflexiveSafe ==
    (verdict # "unchecked" /\ translated_text = original_text) =>
        verdict = "ok"

\* Bracket tokens, stated without scanning: a token starts at a "[" that has
\* a "]" after it and no other "[" since the last "]" before it, and ends at
\* the first "]" after its start.
TokenStarts(t) ==
    {i \in 1..Len(t) :
        /\ t[i] = "["
        /\ \E j \in (i + 1)..Len(t) : t[j] = "]"
        /\ \A k \in 1..(i - 1) :
              t[k] = "[" => \E l \in (k + 1)..(i - 1) : t[l] = "]"}

TokenAt(t, i) == SubSeq(t, i, Min({j \in (i + 1)..Len(t) : t[j] = "]"}))

\* the n-th token of t in text order
TokenSeq(t) ==
    [n \in 1..Cardinality(TokenStarts(t)) |->
        TokenAt(t, CHOOSE i \in TokenStarts(t) :
                      Cardinality({k \in TokenStarts(t) : k <= i}) = n)]

\* the candidate contains on_toggle] or off_toggle] in some letter case
DenyListed(t) ==
    \E i \in 1..(Len(t) - 1) :
        /\ t[i] \in {"on_toggle", "On_Toggle", "off_toggle"}
        /\ t[i + 1] = "]"

\* C7: is_corrupt(original, candidate) is true exactly when the ordered
\* bracket-token sequences of the two texts differ or the candidate contains
\* on_toggle] / off_toggle] in any letter case.
C7_IntegrityPredicate ==
    verdict # "unchecked" =>
        (verdict = "corrupt" <=>
            (TokenSeq(original_text) # TokenSeq(translated_text)
             \/ DenyListed(translated_text)))

\* a candidate with the original's token sequence, flagged for a deny-listed
\* substring written in upper case
C7_Witness ==
    /\ verdict = "corrupt"
    /\ TokenSeq(original_text) = TokenSeq(translated_text)
    /\ Len(TokenSeq(original_text)) = 1
    /\ Contains(translated_text, <<"On_Toggle", "]">>)
    /\ ~Contains(translated_text, <<"on_toggle", "]">>)

(***************************************************************************)
(* translate.py: translate_segments, translate_file and main               *)
(***************************************************************************)

MaxRetries == 2

NumDocs == 2

\* segments of an extracted artifact, as translate.py reads them
SegA == [id |-> "s1", kind |-> "fusion_text", text |-> <<"[", "a", "]", "a">>]
SegB == [id |-> "s2", kind |-> "fusion_toggle:title", text |-> <<"a", "b">>]

\* a segment that repeats the id of SegA
SegA2 == [id |-> "s1", kind |-> "fusion_text", text |-> <<"[", "a", "]", "b">>]

\* the segment lists of the input files, and the values of --batch
Inputs == {<<>>, <<SegA, SegB>>, <<SegA, SegA2>>}

BatchSizes == {1, 2}

InputFile(ss) == [exists |-> TRUE, source_key |-> "p", segments |-> ss]

\* a translated artifact left in out_dir by an earlier run
OldFile == [exists |-> TRUE, source_key |-> "old", segments |-> <<>>]

\* chunk_list(items, size), as the list of its chunks
chunk_list(items, size) ==
    [k \in 1..((Len(items) + size - 1) \div size) |->
        SubSeq(items, (k - 1) * size + 1,
               IF k * size < Len(items) THEN k * size ELSE Len(items))]

RECURSIVE Pow2(_)
Pow2(n) == IF n = 0 THEN 1 ELSE 2 * Pow2(n - 1)

(* The translation service is outside the repository.  An answer to a      *)
(* request for group g is an exception or a parsed payload of one of the    *)
(* kinds below.                                                             *)
Shapes ==
    {"error", "echo", "reordered", "dropped", "extra", "renamed", "corrupt",
     "denylisted"}

Echo(g) ==
    [i \in 1..Len(g) |-> [id |-> g[i].id, text |-> Translate("grow", g[i].text)]]

Reverse(q) == [i \in 1..Len(q) |-> q[Len(q) + 1 - i]]

Shaped(shape, e) ==
    CASE shape = "error" -> [raised |-> TRUE, segments |-> <<>>]
      [] shape = "echo" -> [raised |-> FALSE, segments |-> e]
      [] shape = "reordered" -> [raised |-> FALSE, segments |-> Reverse(e)]
      [] shape = "dropped" ->
            [raised |-> FALSE, segments |-> SubSeq(e, 1, Len(e) - 1)]
      [] shape = "extra" ->
            [raised |-> FALSE,
             segments |-> Append(e, [id |-> "zz", text |-> <<"a">>])]
      [] shape = "renamed" ->
            [raised |-> FALSE, segments |-> [e EXCEPT ![1].id = "zz"]]
      [] shape = "corrupt" ->
            [raised |-> FALSE,
             segments |-> [e EXCEPT ![1].text = @ \o <<"[", "b", "]">>]]
      [] shape = "denylisted" ->
            [raised |-> FALSE,
             segments |-> [e EXCEPT ![Len(e)].text = @ \o <<"On_Toggle", "]">>]]

Answer(shape, g) == Shaped(shape, Echo(g))

\* {s["id"]: s["text"] for s in translated["segments"]}[sid]
MapText(q, sid) ==
    LET S == {i \in 1..Len(q) : q[i].id = sid}
    IN  q[CHOOSE i \in S : \A j \in S : j <= i].text

MapHas(q, sid) == \E i \in 1..Len(q) : q[i].id = sid

NoError == ""

CountError == "ValueError: Schema mismatch: segment count differs"
MissingIdError == "ValueError: Schema mismatch: missing id in translated output"
CorruptionError == "ValueError: Shortcode corruption detected"
ServiceError == "APIError"

CheckAnswerNoCount(segments, answer) ==
    IF answer.raised THEN ServiceError
    ELSE IF \E i \in 1..Len(segments) : ~MapHas(answer.segments, segments[i].id)
    THEN MissingIdError
    ELSE IF \E i \in 1..Len(segments) :
               is_corrupt(segments[i].text,
                          MapText(answer.segments, segments[i].id))
    THEN CorruptionError
    ELSE NoError

\* the body of the try block of translate_segments: the exception it ends
\* with, or NoError when it reaches the return
CheckAnswer(segments, answer) ==
    IF answer.raised THEN ServiceError
    ELSE IF Len(answer.segments) # Len(segments) THEN CountError
    ELSE IF \E i \in 1..Len(segments) : ~MapHas(answer.segments, segments[i].id)
    THEN MissingIdError
    ELSE IF \E i \in 1..Len(segments) :
               is_corrupt(segments[i].text,
                          MapText(answer.segments, segments[i].id))
    THEN CorruptionError
    ELSE NoError

\* the groups translate_file can pass to translate_segments
Batches ==
    UNION {{chunk_list(ss, b)[k] : k \in 1..Len(chunk_list(ss, b))} :
              ss \in Inputs, b \in BatchSizes}

\* what the service returns for a group, and how the try block ends on it
Answers == [shape \in Shapes |-> [g \in Batches |-> Answer(shape, g)]]

Outcomes ==
    [shape \in Shapes |-> [g \in Batches |-> CheckAnswer(g, Answer(shape, g))]]

NoAnswer == [raised |-> FALSE, segments |-> <<>>]

\* a translate_file future that has not started
Queued ==
    [st |-> "queued", group |-> 0, attempt |-> 0, calls |-> 0, errs |-> <<>>,
     sleeps |-> <<>>, answer |-> NoAnswer, translated_segments |-> <<>>,
     raised |-> NoError, status |-> "", file_in |-> 0, file_out |-> 0]

Groups(d) == chunk_list(files[d].segments, args.batch)

Active == {"attempting", "succeeded", "writing"}

ZeroTally ==
    [total_files |-> 0, ok_files |-> 0, skipped |-> 0, empty |-> 0,
     failed |-> 0, total_in |-> 0, total_out |-> 0]

\* the executor starts the futures in submission order, at most
\* args.workers at a time; this is translate_file up to its first request
Start(d) ==
    /\ main_pc = "running"
    /\ w[d].st = "queued"
    /\ \A e \in paths : e < d => w[e].st # "queued"
    /\ Cardinality({e \in paths : w[e].st \in Active}) < args.workers
    /\ IF out_files[d].exists /\ ~args.overwrite
       THEN /\ w' = [w EXCEPT ![d].st = "returned", ![d].status = "skipped"]
            /\ UNCHANGED out_files
       ELSE IF files[d].segments = <<>>
       THEN /\ out_files' = [out_files EXCEPT ![d] =
                               [exists |-> TRUE,
                                source_key |-> files[d].source_key,
                                segments |-> <<>>]]
            /\ w' = [w EXCEPT ![d].st = "returned", ![d].status = "empty"]
       ELSE /\ w' = [w EXCEPT ![d].st = "attempting", ![d].group = 1]
            /\ UNCHANGED out_files
    /\ UNCHANGED <<args, service, paths, files, collected, tally, main_pc>>
    /\ UNCHANGED <<varsA, varsV, varsB>>

RaiseFirst(errs) == errs[1]

\* raise last_err
RaiseLast(errs) == errs[Len(errs)]

\* one iteration of the retry loop of translate_segments that ends with
\* exception e (NoError: with the return) on the service's answer
Iteration(d, answer, e) ==
    IF e = NoError
    THEN w' = [w EXCEPT ![d].st = "succeeded",
                        ![d].calls = @ + 1,
                        ![d].answer = answer]
    ELSE w' = [w EXCEPT
                 ![d].st = IF w[d].attempt + 1 < args.max_retries
                           THEN "attempting" ELSE "raised",
                 ![d].calls = @ + 1,
                 ![d].answer = answer,
                 ![d].errs = Append(@, e),
                 ![d].sleeps = Append(@, args.sleep_base * Pow2(w[d].attempt)),
                 ![d].attempt = @ + 1,
                 ![d].raised = IF w[d].attempt + 1 < args.max_retries
                               THEN NoError ELSE RaiseLast(Append(w[d].errs, e))]

Attempt(d) ==
    /\ w[d].st = "attempting"
    /\ \E shape \in service :
          Iteration(d, Answers[shape][Groups(d)[w[d].group]],
                    Outcomes[shape][Groups(d)[w[d].group]])
    /\ UNCHANGED <<args, service, paths, files, out_files, collected, tally,
                   main_pc>>
    /\ UNCHANGED <<varsA, varsV, varsB>>

\* translate_file, lines 152-162: merge the returned group, go to the next
MergedInFront(d, group, out_map) ==
    [i \in 1..Len(group) |->
       [id |-> group[i].id, kind |-> group[i].kind,
        text |-> MapText(out_map, group[i].id)]]
    \o w[d].translated_segments

\* usage is counted as one input and one output token per segment
Merged(d, group, out_map) ==
    w[d].translated_segments \o
    [i \in 1..Len(group) |->
       [id |-> group[i].id, kind |-> group[i].kind,
        text |-> MapText(out_map, group[i].id)]]

Merge(d) ==
    /\ w[d].st = "succeeded"
    /\ w' = [w EXCEPT
               ![d].translated_segments =
                  Merged(d, Groups(d)[w[d].group], w[d].answer.segments),
               ![d].file_in = @ + Len(Groups(d)[w[d].group]),
               ![d].file_out = @ + Len(Groups(d)[w[d].group]),
               ![d].st = IF w[d].group < Len(Groups(d))
                         THEN "attempting" ELSE "writing",
               ![d].group = IF w[d].group < Len(Groups(d)) THEN @ + 1 ELSE @,
               ![d].attempt = 0,
               ![d].calls = 0,
               ![d].errs = <<>>,
               ![d].sleeps = <<>>]
    /\ UNCHANGED <<args, service, paths, files, out_files, collected, tally,
                   main_pc>>
    /\ UNCHANGED <<varsA, varsV, varsB>>

\* translate_file, lines 164-172
WriteResult(d) ==
    /\ w[d].st = "writing"
    /\ out_files' = [out_files EXCEPT ![d] =
                       [exists |-> TRUE, source_key |-> files[d].source_key,
                        segments |-> w[d].translated_segments]]
    /\ w' = [w EXCEPT ![d].st = "returned", ![d].status = "ok"]
    /\ UNCHANGED <<args, service, paths, files, collected, tally, main_pc>>
    /\ UNCHANGED <<varsA, varsV, varsB>>

CollectNoCatch(d) ==
    /\ main_pc = "running"
    /\ d \notin collected
    /\ w[d].st \in {"returned", "raised"}
    /\ collected' = collected \cup {d}
    /\ IF w[d].st = "raised"
       THEN main_pc' = "aborted" /\ UNCHANGED tally
       ELSE /\ main_pc' = main_pc
            /\ tally' = [tally EXCEPT !.total_files = @ + 1,
                                      !.ok_files = @ + 1]
    /\ UNCHANGED <<args, service, paths, files, out_files, w>>
    /\ UNCHANGED <<varsA, varsV, varsB>>

\* main: one iteration of  for fut in as_completed(futures)
Collect(d) ==
    /\ main_pc = "running"
    /\ d \notin collected
    /\ w[d].st \in {"returned", "raised"}
    /\ collected' = collected \cup {d}
    /\ IF w[d].st = "raised"
       THEN tally' = [tally EXCEPT !.failed = @ + 1]
       ELSE tally' =
              [tally EXCEPT
                 !.total_files = @ + 1,
                 !.total_in = @ + w[d].file_in,
                 !.total_out = @ + w[d].file_out,
                 !.ok_files = IF w[d].status = "ok" THEN @ + 1 ELSE @,
                 !.skipped = IF w[d].status = "skipped" THEN @ + 1 ELSE @,
                 !.empty = IF w[d].status = "empty" THEN @ + 1 ELSE @]
    /\ UNCHANGED <<args, service, paths, files, out_files, w, main_pc>>
    /\ UNCHANGED <<varsA, varsV, varsB>>

\* main, line 238: every future is handled, the summary is printed
MainDone ==
    /\ main_pc = "running"
    /\ collected = paths
    /\ main_pc' = "done"
    /\ UNCHANGED <<args, service, paths, files, out_files, w, collected, tally>>
    /\ UNCHANGED <<varsA, varsV, varsB>>

NextT ==
    \/ \E d \in paths : Start(d)
    \/ \E d \in paths : Attempt(d)
    \/ \E d \in paths : Merge(d)
    \/ \E d \in paths : WriteResult(d)
    \/ \E d \in paths : Collect(d)
    \/ MainDone

\* one input file, every kind of answer, every retry budget
InitR ==
    /\ args \in [batch : BatchSizes, max_retries : 1..MaxRetries,
                 sleep_base : {1, 3}, workers : {1}, overwrite : {FALSE}]
    /\ service = Shapes
    /\ paths = {1}
    /\ files \in [paths -> {InputFile(<<SegA, SegB>>), InputFile(<<SegA, SegA2>>)}]
    /\ out_files = [d \in paths |-> NoFile]
    /\ w = [d \in paths |-> Queued]
    /\ collected = {}
    /\ tally = ZeroTally
    /\ main_pc = "running"

InitRetry == InitR /\ IdleA /\ IdleV /\ IdleB

SpecR == InitRetry /\ [][NextT]_vars

\* NumDocs input files handled by a pool of workers
InitT ==
    /\ args \in [batch : BatchSizes, max_retries : {1, 2}, sleep_base : {1},
                 workers : 1..NumDocs, overwrite : BOOLEAN]
    /\ service = {"error", "echo", "corrupt"}
    /\ paths = 1..NumDocs
    /\ files \in [paths -> {InputFile(<<>>), InputFile(<<SegA, SegB>>)}]
    /\ \E old \in SUBSET {1} :
          out_files = [d \in paths |-> IF d \in old THEN OldFile ELSE NoFile]
    /\ w = [d \in paths |-> Queued]
    /\ collected = {}
    /\ tally = ZeroTally
    /\ main_pc = "running"

InitRun == InitT /\ IdleA /\ IdleV /\ IdleB

SpecT == InitRun /\ [][NextT]_vars

\* the threads run, and every request and every sleep returns
FairSpecR == SpecR /\ WF_vars(NextT)

FairSpecT == SpecT /\ WF_vars(NextT)

(***************************************************************************)
(* Properties of the retry loop                                            *)
(***************************************************************************)

Finished == {"succeeded", "raised"}

BackoffOk(d) ==
    /\ Len(w[d].sleeps) = Len(w[d].errs)
    /\ \A k \in 1..Len(w[d].sleeps) :
          w[d].sleeps[k] = args.sleep_base * Pow2(k - 1)

RetryInv(d) ==
    /\ w[d].calls <= args.max_retries
    /\ BackoffOk(d)
    /\ \A k \in 1..Len(w[d].errs) : w[d].errs[k] # NoError
    /\ w[d].st = "attempting" =>
          /\ w[d].attempt < args.max_retries
          /\ w[d].calls = w[d].attempt
          /\ Len(w[d].errs) = w[d].attempt
    /\ w[d].st = "succeeded" =>
          /\ w[d].raised = NoError
          /\ Len(w[d].errs) = w[d].calls - 1
    /\ w[d].st = "raised" <=>
          /\ w[d].calls = args.max_retries
          /\ Len(w[d].errs) = args.max_retries
    /\ w[d].st = "raised" => w[d].raised = w[d].errs[Len(w[d].errs)]

RetryStep(d) ==
    /\ (w'[d].group = w[d].group /\ w'[d].attempt = w[d].attempt + 1) =>
          /\ w[d].st = "attempting"
          /\ w'[d].calls = w[d].calls + 1
          /\ w'[d].answer.raised
             \/ CheckAnswer(Groups(d)[w[d].group], w'[d].answer) # NoError
          /\ w'[d].sleeps =
                Append(w[d].sleeps, args.sleep_base * Pow2(w[d].attempt))
    /\ w[d].st \in Finished =>
          /\ w'[d].calls <= w[d].calls
          /\ Len(w'[d].sleeps) <= Len(w[d].sleeps)

\* C8: one call of translate_segments ends succeeded or failed permanently
\* after at most max_retries requests; attempt n+1 follows only a raised
\* attempt n and a sleep of sleep_base * 2^n; nothing is requested after a
\* success; it fails exactly when all max_retries attempts raised, with
\* the error of the last attempt
C8_RetryMachine ==
    /\ [](\A d \in paths : RetryInv(d))
    /\ [][\A d \in paths : RetryStep(d)]_vars
    /\ (w[1].st = "attempting") ~> (w[1].st \in Finished)

C8_Witness ==
    \E d \in paths :
       /\ w[d].st = "raised"
       /\ args.max_retries > 1
       /\ w[d].errs[1] # w[d].raised
       /\ w[d].sleeps = <<3, 6>>

(***************************************************************************)
(* Properties of the validation of an answer                               *)
(***************************************************************************)

IdsOf(q) == {q[i].id : i \in 1..Len(q)}

DistinctIds(q) == \A i, j \in 1..Len(q) : q[i].id = q[j].id => i = j

Validated(segments, q) ==
    /\ Len(q) = Len(segments)
    /\ IdsOf(segments) \subseteq IdsOf(q)
    /\ \A i \in 1..Len(segments) :
          ~is_corrupt(segments[i].text, MapText(q, segments[i].id))

ReturnedInv(d) ==
    w[d].st = "succeeded" =>
       LET segments == Groups(d)[w[d].group]
           q == w[d].answer.segments
       IN  /\ ~w[d].answer.raised
           /\ Validated(segments, q)
           /\ DistinctIds(segments) =>
                 /\ IdsOf(q) = IdsOf(segments)
                 /\ DistinctIds(q)

RejectedStep(d) ==
    (/\ w[d].st = "attempting"
     /\ w'[d].calls = w[d].calls + 1
     /\ \/ w'[d].answer.raised
        \/ ~Validated(Groups(d)[w[d].group], w'[d].answer.segments))
    => /\ w'[d].st # "succeeded"
       /\ Len(w'[d].errs) = Len(w[d].errs) + 1

\* C9: translate_segments returns an answer only if it has as many entries
\* as the batch, holds every input id and no text is flagged by is_corrupt;
\* for distinct input ids the returned ids are the input ids, once each;
\* any other answer is a failed attempt
C9_ValidatedSuccess ==
    /\ [](\A d \in paths : ReturnedInv(d))
    /\ [][\A d \in paths : RejectedStep(d)]_vars

C9_Witness ==
    \E d \in paths :
       /\ w[d].st = "succeeded"
       /\ Len(w[d].errs) > 0
       /\ Len(w[d].answer.segments) = 2
       /\ DistinctIds(Groups(d)[w[d].group])
       /\ w[d].answer.segments[1].id # Groups(d)[w[d].group][1].id

(***************************************************************************)
(* Properties of a run of main over several files                          *)
(***************************************************************************)

\* the artifact of a file whose every group was translated
Expected(d) ==
    [exists |-> TRUE, source_key |-> files[d].source_key,
     segments |-> [i \in 1..Len(files[d].segments) |->
                     [id |-> files[d].segments[i].id,
                      kind |-> files[d].segments[i].kind,
                      text |-> Translate("grow", files[d].segments[i].text)]]]

Failed == {d \in paths : w[d].st = "raised"}

Returned == {d \in paths : w[d].st = "returned"}

IsolationInv ==
    /\ main_pc \in {"running", "done"}
    /\ \A d \in paths :
          /\ w[d].st = "raised" => out_files[d] \in {NoFile, OldFile}
          /\ (w[d].st = "returned" /\ w[d].status = "ok") =>
                out_files[d] = Expected(d)
          /\ (w[d].st = "returned" /\ w[d].status = "empty") =>
                out_files[d] = Expected(d)
          /\ (w[d].st = "returned" /\ w[d].status = "skipped") =>
                out_files[d] = OldFile
    /\ tally.failed = Cardinality(Failed \cap collected)
    /\ tally.total_files = Cardinality(Returned \cap collected)
    /\ main_pc = "done" =>
          /\ collected = paths
          /\ Failed \cup Returned = paths

\* C10: a file whose batch fails permanently is counted as failed; every
\* other file is still handled to its end and its artifact written, and the
\* run reaches its summary, under every interleaving of the workers
C10_FailureIsolation ==
    /\ []IsolationInv
    /\ <>(main_pc = "done")

C10_Witness ==
    /\ main_pc = "done"
    /\ tally.failed > 0
    /\ \E d, e \in paths :
          /\ d < e
          /\ w[d].st = "raised"
          /\ w[e].status = "ok"
          /\ out_files[e] = Expected(e)

(***************************************************************************)
(* segments.py: a cmd_apply run over the files of src_dir                  *)
(***************************************************************************)

\* iter_container_files: the container files, by sorted name
SourceNames ==
    <<"p/container_1.txt", "p/container_2.txt", "p/container_3.txt",
      "p/container_4.txt">>

Containers == {TextEl, ToggleEl \o TextEl}

\* the artifact cmd_extract writes for file i
ExtractedOf(i) ==
    Payload(SourceNames[i], extract_segments(src_dir[i], SourceNames[i]))

\* a translated artifact for ex that lacks the segments numbered in drop
TranslatedOf(ex, drop) ==
    [exists |-> TRUE, source_key |-> ex.source_key,
     segments |->
        RemoveAt([i \in 1..Len(ex.segments) |->
                    [id |-> ex.segments[i].id, kind |-> ex.segments[i].kind,
                     text |-> Translate("grow", ex.segments[i].text)]],
                 drop)]

Done(doc) == [err |-> "", out |-> doc]

Raised(e) == [err |-> e, out |-> <<>>]

\* for s in reversed(span_segs): ...
RECURSIVE ApplySpans(_, _, _)
ApplySpans(doc, spans, tr) ==
    IF spans = <<>> THEN Done(doc)
    ELSE IF ~HasId(tr, spans[Len(spans)].id) THEN Raised("KeyError")
    ELSE ApplySpans(Splice(doc, spans[Len(spans)].start, spans[Len(spans)].end,
                           Lookup(tr, spans[Len(spans)].id)),
                    SubSeq(spans, 1, Len(spans) - 1), tr)

\* out = out[:bm.start()] + new_block + out[bm.end():]
Relocate(doc, bm, new_text) ==
    SubSeq(doc, 1, bm.from - 1)
    \o replace_toggle_title(SubSeq(doc, bm.from, bm.to), new_text)
    \o SubSeq(doc, bm.to + 1, Len(doc))

\* for s in title_segs: ...
RECURSIVE ApplyTitles(_, _, _)
ApplyTitles(doc, titles, tr) ==
    IF titles = <<>> THEN Done(doc)
    ELSE IF ~HasId(tr, Head(titles).id) THEN Raised("KeyError")
    ELSE IF ToggleFinditer(doc, 1) = <<>>
    THEN Raised("ValueError: toggle block not found")
    ELSE ApplyTitles(Relocate(doc, TitleBlock(ToggleFinditer(doc, 1), Head(titles)),
                              Lookup(tr, Head(titles).id)),
                     Tail(titles), tr)

ThenTitles(r, titles, tr) ==
    IF r.err # "" THEN r ELSE ApplyTitles(r.out, titles, tr)

Replacements(doc, ss, tr) ==
    ThenTitles(ApplySpans(doc, SelectSeq(ss, HasSpan), tr),
               SelectSeq(ss, IsTitle), tr)

\* the body of  for p in files  of cmd_apply: the exception it raises, or
\* the text it writes
ApplyFile(doc, key, ex, tr) ==
    IF ~ex.exists \/ ~tr.exists THEN Raised("FileNotFoundError")
    ELSE IF MissingIds(ex, tr) # {}
    THEN Raised("ValueError: Missing translated segment IDs")
    ELSE Replacements(doc, extract_segments(doc, key), tr)

\* one iteration of  for p in files
ApplyNextFile ==
    /\ apply_pc = "running"
    /\ next_p <= Len(src_dir)
    /\ \E r \in {ApplyFile(src_dir[next_p], SourceNames[next_p],
                           extracted_dir[next_p], translated_dir[next_p])} :
          IF r.err # ""
          THEN /\ apply_pc' = "raised"
               /\ apply_err' = r.err
               /\ UNCHANGED <<out_dir, next_p>>
          ELSE /\ out_dir' = [out_dir EXCEPT ![next_p] =
                                [exists |-> TRUE, text |-> r.out]]
               /\ next_p' = next_p + 1
               /\ UNCHANGED <<apply_pc, apply_err>>
    /\ UNCHANGED <<src_dir, extracted_dir, translated_dir>>
    /\ UNCHANGED <<varsA, varsV, varsT>>

\* the loop has gone through every file: cmd_apply returns
ApplyReturns ==
    /\ apply_pc = "running"
    /\ next_p > Len(src_dir)
    /\ apply_pc' = "done"
    /\ UNCHANGED <<src_dir, extracted_dir, translated_dir, out_dir, next_p,
                   apply_err>>
    /\ UNCHANGED <<varsA, varsV, varsT>>

NextB == ApplyNextFile \/ ApplyReturns

InitB ==
    /\ src_dir \in [1..NumDocs -> Containers]
    /\ \E have \in SUBSET (1..NumDocs) :
          extracted_dir =
             [i \in 1..NumDocs |-> IF i \in have THEN ExtractedOf(i) ELSE NoFile]
    /\ \E state \in [1..NumDocs -> {"absent", "complete", "partial"}] :
          translated_dir =
             [i \in 1..NumDocs |->
                IF state[i] = "absent" THEN NoFile
                ELSE TranslatedOf(ExtractedOf(i),
                                  IF state[i] = "partial" THEN 1 ELSE 0)]
    /\ out_dir = [i \in 1..NumDocs |-> NoOutput]
    /\ next_p = 1
    /\ apply_pc = "running"
    /\ apply_err = ""

InitApply == InitB /\ IdleA /\ IdleV /\ IdleT

SpecB == InitApply /\ [][NextB]_vars

(***************************************************************************)
(* Properties of a cmd_apply run over several files                        *)
(***************************************************************************)

\* file i has both artifacts and every extracted id is translated
Complete(i) ==
    /\ extracted_dir[i].exists
    /\ translated_dir[i].exists
    /\ \A n \in 1..Len(extracted_dir[i].segments) :
          \E m \in 1..Len(translated_dir[i].segments) :
             translated_dir[i].segments[m].id = extracted_dir[i].segments[n].id

ApplyOver == apply_pc \in {"raised", "done"}

\* C11: when a cmd_apply run is over, every file that has complete
\* artifacts has its output written, whatever other file failed on a
\* missing artifact or a missing translated id
C11_ApplyIsolation ==
    ApplyOver =>
       \A i \in 1..Len(src_dir) : Complete(i) => out_dir[i].exists

\* the files before the failing one are written, the failing one and all
\* files after it are not
AppliedPrefixOnly ==
    apply_pc = "raised" =>
       /\ ~Complete(next_p)
       /\ \A i \in 1..Len(src_dir) : out_dir[i].exists <=> i < next_p

(***************************************************************************)
(* Properties of the artifact translate_file writes                        *)
(***************************************************************************)

\* this run has written the artifact of file d
Written(d) == out_files[d].exists /\ out_files[d] # OldFile

\* one entry per input segment of file d, in input order, same id and kind
EntryPerSegment(d, ts) ==
    /\ Len(ts) = Len(files[d].segments)
    /\ \A i \in 1..Len(ts) :
          /\ ts[i].id = files[d].segments[i].id
          /\ ts[i].kind = files[d].segments[i].kind

ArtifactInv(d) ==
    /\ Written(d) =>
          /\ w[d].st = "returned"
          /\ w[d].status \in {"ok", "empty"}
          /\ EntryPerSegment(d, out_files[d].segments)
    /\ w[d].st \in {"queued", "attempting", "succeeded", "writing", "raised"} =>
          ~Written(d)
    /\ w[d].st = "writing" =>
          /\ w[d].group = Len(Groups(d))
          /\ EntryPerSegment(d, w[d].translated_segments)

\* the entries of a group are appended with the texts of its own answer
MergeStep(d) ==
    (w[d].st = "succeeded" /\ w'[d].st # "succeeded") =>
       LET group == Groups(d)[w[d].group]
           before == w[d].translated_segments
           after == w'[d].translated_segments
       IN  /\ Validated(group, w[d].answer.segments)
           /\ Len(after) = Len(before) + Len(group)
           /\ SubSeq(after, 1, Len(before)) = before
           /\ \A i \in 1..Len(group) :
                 after[Len(before) + i] =
                    [id |-> group[i].id, kind |-> group[i].kind,
                     text |-> MapText(w[d].answer.segments, group[i].id)]

WriteStep(d) ==
    out_files'[d] # out_files[d] =>
       \/ /\ w[d].st = "writing"
          /\ out_files'[d].segments = w[d].translated_segments
       \/ /\ w[d].st = "queued"
          /\ files[d].segments = <<>>
          /\ out_files'[d].segments = <<>>

\* C12: translate_file writes the artifact of a file only after every one
\* of its batches succeeded; the artifact then has one entry per input
\* segment, in input order, with the same id and kind and the text of the
\* validated answer of its batch; after a permanent failure of a batch
\* nothing is written for the file
C12_CompleteArtifact ==
    /\ [](\A d \in paths : ArtifactInv(d))
    /\ [][\A d \in paths : MergeStep(d) /\ WriteStep(d)]_vars

C12_Witness ==
    \E d, e \in paths :
       /\ w[d].st = "raised"
       /\ w[d].group = 2
       /\ w[d].translated_segments # <<>>
       /\ ~Written(d)
       /\ w[e].status = "ok"
       /\ Len(Groups(e)) = 2
       /\ Written(e)

(***************************************************************************)
(* Properties of the title replacement of cmd_apply                        *)
(***************************************************************************)

\* the block the next title segment is relocated to
TargetBlock == TitleBlock(ToggleFinditer(out, 1), Head(title_todo))

\* out with the value of the title attribute found at tag (a match inside
\* the opening tag of block bm) replaced by new_text, nothing else touched
OpeningTagRewritten(bm, tag, new_text) ==
    SubSeq(out, 1, bm.astart + tag.from)
    \o new_text
    \o SubSeq(out, bm.astart - 1 + tag.to, Len(out))

TitleStep == pc = "titles" /\ pc' # "raised"

\* C13: a title replacement of cmd_apply rewrites only the first title
\* attribute inside the opening tag of the block it is relocated to (the
\* last block when toggle_order is clamped); a block whose opening tag has
\* no title attribute is left unchanged, body included
C13_TitleConfined ==
    [][TitleStep =>
          IF TitleOf(out, TargetBlock).ok
          THEN out' = OpeningTagRewritten(TargetBlock, TitleOf(out, TargetBlock),
                                          Lookup(tr_map, Head(title_todo).id))
          ELSE out' = out]_vars

====
